---- MODULE Spec2Model ----
(***************************************************************************)
(* Model of greetd's parent-side session controller                        *)
(* (greetd/src/session/interface.rs): Session, SessionChild and the        *)
(* datagram channel to the session worker.                                 *)
(*                                                                         *)
(* The caller is one logical task (the methods take &mut self), so one     *)
(* Session operation runs at a time.  An operation that awaits a datagram  *)
(* (get_state with an empty buffer, send_args, start) is split at the      *)
(* await: pc records the recv the caller is suspended in, and the worker   *)
(* runs in between.                                                        *)
(***************************************************************************)
EXTENDS Integers, Sequences, FiniteSets, TLC

VARIABLES
    exists,     \* a Session value has been returned by new_external
    task,       \* Session.task
    shut,       \* Session.sock has been shut down (Shutdown::Both)
    last_msg,   \* Session.last_msg : Option<SessionChildToParent>
    toWorker,   \* datagrams sent by the controller, not yet read by the worker
    toParent,   \* datagrams sent by the worker, not yet read by the controller
    pc,         \* position of the caller: "idle", or a pending send or recv
    handle,     \* Option<SessionChild> returned by start
    ret,        \* outcome of the Session operation that ended last
    signals,    \* the signal::kill calls the last term or kill made, in order
    sigRet,     \* what the last call of term or kill returned
    steps,      \* the steps the last call of new_external ran, in order
    workers,    \* pids of the worker processes spawned so far
    pending,    \* the request of the suspended operation, if any: the one it
                \* is sending (pending send) or has sent (pending recv)
    nsent,      \* number of requests put on the channel so far
    lastRecv,   \* Option: the message the Session received last
    bufAt,      \* value of nsent when the buffered reply was received, 0
                \* while no reply is buffered
    disciplined,\* every call so far was one the disciplined caller makes
    ops         \* number of operations invoked so far

vars == <<exists, task, shut, last_msg, toWorker, toParent, pc, handle, ret,
          signals, sigRet, steps, workers, pending, nsent, lastRecv,
          bufAt, disciplined, ops>>

(***************************************************************************)
(* Bounds of the model.                                                    *)
(***************************************************************************)
MaxOps == 5
MaxPrompts == 3

(***************************************************************************)
(* Option<T>: None is the empty sequence, Some(x) the one-element one.     *)
(***************************************************************************)
None == <<>>
Some(x) == <<x>>

(***************************************************************************)
(* Input domains.                                                          *)
(***************************************************************************)
Styles == {"Secret"}
Texts == {"Password:"}
Errors == {"authentication failure", "pam error"}
Answers == {"secret"}
WorkerPids == 10..19
SubPids == {10, 12}

\* `x as i32` for the non-negative values a pid can take (pids are below
\* 2^22; every value of the model is below 2^31, where the cast changes
\* nothing and above which it wraps).
AsI32(x) == IF x <= 2147483647 THEN x ELSE (x - 2147483647) - 2147483647 - 2

(***************************************************************************)
(* ParentToSessionChild                                                    *)
(***************************************************************************)
InitiateLogin(service, class, user, authenticate) ==
    [type |-> "InitiateLogin", service |-> service, class |-> class,
     user |-> user, authenticate |-> authenticate]
PamResponse(resp) == [type |-> "PamResponse", resp |-> resp]
Cancel == [type |-> "Cancel"]
Args(vt, env, cmd) == [type |-> "Args", vt |-> vt, env |-> env, cmd |-> cmd]
Start == [type |-> "Start"]

(***************************************************************************)
(* SessionChildToParent                                                    *)
(***************************************************************************)
PamMessage(style, msg) == [type |-> "PamMessage", style |-> style, msg |-> msg]
Success == [type |-> "Success"]
ErrorMsg(e) == [type |-> "Error", err |-> e]
FinalChildPid(p) == [type |-> "FinalChildPid", pid |-> p]

Replies ==
    {PamMessage(s, t) : s \in Styles, t \in Texts} \cup {Success}
    \cup {ErrorMsg(e) : e \in Errors} \cup {FinalChildPid(p) : p \in SubPids}

(***************************************************************************)
(* Datagrams that do not deserialize.  recv reads into a buffer of         *)
(* RecvBufLen bytes, so a longer datagram arrives truncated and from_slice *)
(* fails on it, as it does on a payload that is not the JSON encoding of a *)
(* SessionChildToParent.                                                   *)
(***************************************************************************)
RecvBufLen == 10240

\* A text of RecvBufLen + 60 characters.
LongText == "x (10300 times)"

\* The variants of SessionChildToParent.
ReplyTypes == {"PamMessage", "Success", "Error", "FinalChildPid"}

\* Number of bytes of a text; the short texts of the model have at most 22.
TextLen(t) == IF t = LongText THEN RecvBufLen + 60 ELSE 22

\* Number of bytes of the datagram that carries d: for a message, the length
\* of its JSON encoding (the text it carries and at most 64 bytes around it).
WireLen(d) ==
    CASE d.type = "Error" -> TextLen(d.err) + 22
      [] d.type = "PamMessage" -> TextLen(d.msg) + 64
      [] OTHER -> 32

\* serde_json::from_slice(&data[..len]): the message of datagram d, None
\* when the bytes read are no message.
Decode(d) ==
    IF d.type \notin ReplyTypes \/ WireLen(d) > RecvBufLen
    THEN None
    ELSE Some(d)

\* What the worker writes to the channel: it serializes a message, which
\* may be longer than the controller's buffer.
WorkerSends == Replies \cup {ErrorMsg(LongText)}

(***************************************************************************)
(* Outcomes of an operation, as the caller sees them: the operation, its   *)
(* Option argument (post_answer), the kind of result, the error text or    *)
(* state it carries, the datagrams it read and the requests it put on the  *)
(* channel.                                                                *)
(***************************************************************************)
Outcome(op, arg, kind, val, got, sent) ==
    [op |-> op, arg |-> arg, kind |-> kind, val |-> val, got |-> got,
     sent |-> sent]

NoOutcome == Outcome("none", None, "none", <<>>, <<>>, <<>>)

SessionOps ==
    {"initiate", "get_state", "cancel", "post_answer", "send_args", "start"}

(***************************************************************************)
(* Transport: AsyncSend::send and AsyncRecv::recv.                         *)
(***************************************************************************)
SendErr == <<"unable to send message">>
RecvErr == <<"unable to recieve message">>
DecodeErr == <<"unable to deserialize message">>

\* sock.send succeeds when the write itself does (io) and the socket has not
\* been shut down: a send on a shut-down socket fails with EPIPE.
SendOk(io) == io /\ ~shut

\* Mutant: send reports success without writing the datagram.
Sent_Dropped(msg, io) == toWorker

\* Mutant: send writes the datagram twice.
Sent_Duplicated(msg, io) ==
    IF SendOk(io)
    THEN toWorker \o <<[msg |-> msg, id |-> nsent + 1],
                       [msg |-> msg, id |-> nsent + 1]>>
    ELSE toWorker

\* The channel after msg.send(&mut self.sock): one datagram more on success.
\* A datagram on the channel carries, besides the message, the number of the
\* request it is (toWorker) or answers (toParent); the code never sees it.
Sent(msg, io) ==
    IF SendOk(io)
    THEN Append(toWorker, [msg |-> msg, id |-> nsent + 1])
    ELSE toWorker

\* The results sock.recv + from_slice can produce in the current state:
\* an I/O error, which leaves the queue as it is; the next datagram, which
\* is taken off the queue whether it deserializes (the message) or not (a
\* decode error); or - on a shut-down socket with nothing queued - a
\* zero-length read, which does not deserialize.
RecvResults ==
    {[ok |-> FALSE, msg |-> None, err |-> RecvErr, rest |-> toParent]}
    \cup (IF toParent # <<>>
          THEN {[ok |-> Decode(Head(toParent).msg) # None,
                 msg |-> Decode(Head(toParent).msg),
                 err |-> IF Decode(Head(toParent).msg) # None
                         THEN <<>> ELSE DecodeErr,
                 rest |-> Tail(toParent)]}
          ELSE IF shut
               THEN {[ok |-> FALSE, msg |-> None, err |-> DecodeErr,
                      rest |-> toParent]}
               ELSE {})

(***************************************************************************)
(* The match of each operation on the message it received: the kind of     *)
(* result and the value it carries.                                        *)
(***************************************************************************)
GetStateMatch(msg) ==
    CASE msg.type = "PamMessage" ->
             [kind |-> "Question", val |-> <<msg.style, msg.msg>>]
      [] msg.type = "Success" -> [kind |-> "Ready", val |-> <<>>]
      [] msg.type = "Error" -> [kind |-> "WorkerErr", val |-> <<msg.err>>]
      [] OTHER -> [kind |-> "Panic", val |-> <<>>]

SendArgsMatch(msg) ==
    CASE msg.type = "Success" -> [kind |-> "Ok", val |-> <<>>]
      [] msg.type = "Error" -> [kind |-> "WorkerErr", val |-> <<msg.err>>]
      [] OTHER -> [kind |-> "Panic", val |-> <<>>]

StartMatch(msg) ==
    CASE msg.type = "Error" -> [kind |-> "WorkerErr", val |-> <<msg.err>>]
      [] msg.type = "FinalChildPid" -> [kind |-> "Handle", val |-> <<>>]
      [] OTHER -> [kind |-> "Panic", val |-> <<>>]

\* The error of a failing self.sock.shutdown(Both)?, converted by `?`.
ShutdownErr == <<"shutdown failed">>

\* Mutant: the socket is shut down only when the handle is returned.
ShutAfterStart_OnSuccessOnly(m, ok) == (ok /\ m.type = "FinalChildPid") \/ shut

\* Mutant: the socket is shut down only on the error path.
ShutAfterStart_OnErrorOnly(m, ok) == (ok /\ m.type = "Error") \/ shut

\* The socket after start has received a reply m and called
\* self.sock.shutdown(Both), which runs before the match, whatever the
\* reply is: shut down when the call succeeds (ok), as it was when it fails.
ShutAfterStart(m, ok) == ok \/ shut

\* SessionChild { task: self.task, sub_task: Pid::from_raw(raw_pid as i32) }
SessionChild(t, raw_pid) == [task |-> t, sub_task |-> AsI32(raw_pid)]

\* The request cancel sends.
CancelRequest == Cancel

\* Mutant: a missing answer is sent as an empty response.
PostAnswerRequest_EmptyResponse(answer) ==
    PamResponse(IF answer # None THEN answer[1] ELSE "")

\* The request post_answer sends for its Option<String> argument.
PostAnswerRequest(answer) ==
    IF answer # None THEN PamResponse(answer[1]) ELSE Cancel

(***************************************************************************)
(* SessionChild                                                            *)
(***************************************************************************)
\* Mutant: && for ||.
owns_pid_Both(h, pid) == h.task = pid /\ h.sub_task = pid

owns_pid(h, pid) == h.task = pid \/ h.sub_task = pid

\* One call of nix::sys::signal::kill(pid, sig): the method that made it and
\* whether the call succeeded (ok) or returned an error such as ESRCH.
Signal(pid, sig, by, ok) == [pid |-> pid, sig |-> sig, by |-> by, ok |-> ok]

\* Mutant: term signals the task instead of the sub-task.
TermSignals_Task(h, ok) == <<Signal(h.task, "SIGTERM", "term", ok)>>

\* term: let _ = kill(self.sub_task, SIGTERM)
TermSignals(h, ok) == <<Signal(h.sub_task, "SIGTERM", "term", ok)>>

\* Mutant: the first call's error is propagated (?), so the second call is
\* not made after a failed first one.
KillSignals_StopsOnFailure(h, ok1, ok2) ==
    IF ok1
    THEN <<Signal(h.sub_task, "SIGKILL", "kill", ok1),
           Signal(h.task, "SIGKILL", "kill", ok2)>>
    ELSE <<Signal(h.sub_task, "SIGKILL", "kill", ok1)>>

\* kill: let _ = kill(self.sub_task, SIGKILL); let _ = kill(self.task, SIGKILL)
KillSignals(h, ok1, ok2) ==
    <<Signal(h.sub_task, "SIGKILL", "kill", ok1),
      Signal(h.task, "SIGKILL", "kill", ok2)>>

\* What term and kill return after the calls sigs: `let _ =` discards every
\* result and the methods return ().
SignalReturn(sigs) == "Unit"

(***************************************************************************)
(* Initial state: no Session has been created yet.                         *)
(***************************************************************************)
Init ==
    /\ exists = FALSE
    /\ task = 0
    /\ shut = FALSE
    /\ last_msg = None
    /\ toWorker = <<>>
    /\ toParent = <<>>
    /\ pc = "idle"
    /\ handle = None
    /\ ret = NoOutcome
    /\ signals = <<>>
    /\ sigRet = "none"
    /\ steps = <<>>
    /\ workers = {}
    /\ pending = None
    /\ nsent = 0
    /\ lastRecv = None
    /\ bufAt = 0
    /\ disciplined = TRUE
    /\ ops = 0

\* An operation completes with outcome o.
Complete(o) == ret' = o

\* The caller may invoke an operation on the Session: it holds one and no
\* operation is suspended (&mut self).  A panic unwinds out of the operation
\* and leaves the Session as it is, usable by a caller that catches it.
CanCall == exists /\ pc = "idle"

(***************************************************************************)
(* The disciplined caller: it follows the handshake of the protocol table  *)
(* (initiate, the question loop, send_args after Ready, start after the    *)
(* arguments were accepted) and stops at the first error it is returned.   *)
(* What it may call next is decided by the result of its last call.        *)
(***************************************************************************)
MayInitiate == ret.op = "new_external" /\ ret.kind = "Ok"

\* A request of the question loop has been sent and its reply is due.
MayReceive ==
    ret.op \in {"initiate", "cancel", "post_answer"} /\ ret.kind = "Ok"

MayGetState ==
    \/ MayReceive
    \/ ret.op = "get_state" /\ ret.kind \in {"Question", "Ready"}

MayAnswer == ret.op = "get_state" /\ ret.kind = "Question"

MaySendArgs == ret.op = "get_state" /\ ret.kind = "Ready"

MayStart == ret.op = "send_args" /\ ret.kind = "Ok"

\* disciplined records whether every call so far was one the disciplined
\* caller may make.
Discipline(may) == disciplined' = (disciplined /\ may)

(***************************************************************************)
(* Session::new_external.  fail names the step that fails ("none": all     *)
(* succeed).                                                               *)
(***************************************************************************)
NewFailures ==
    {"none", "pair", "getfd", "setfd", "current_exe", "spawn", "from_std"}

\* The fallible steps of new_external, in program order.
NewSteps == <<"pair", "getfd", "setfd", "current_exe", "spawn", "from_std">>

\* Mutant: a failed spawn is tried a second time.
StepsRun_RetriesSpawn(fail) ==
    IF fail = "none"
    THEN NewSteps
    ELSE LET k == CHOOSE i \in 1..Len(NewSteps) : NewSteps[i] = fail
         IN IF fail = "spawn"
            THEN Append(SubSeq(NewSteps, 1, k), "spawn")
            ELSE SubSeq(NewSteps, 1, k)

\* The steps one call runs when step fail fails: each `?` returns at once,
\* so these are the steps up to the failing one, each once.
StepsRun(fail) ==
    IF fail = "none"
    THEN NewSteps
    ELSE SubSeq(NewSteps, 1, CHOOSE i \in 1..Len(NewSteps) : NewSteps[i] = fail)

\* The worker has been spawned exactly when Command::spawn ran and succeeded.
Spawned(fail) == fail \in {"none", "from_std"}

\* The pid the next spawned worker gets: pids are handed out in sequence
\* (the least one not yet used).
NextPid ==
    CHOOSE p \in WorkerPids \ workers : \A q \in WorkerPids \ workers : p <= q

NewExternal(fail) ==
    /\ ~exists /\ pc = "idle"
    /\ ops' = ops + 1
    /\ steps' = StepsRun(fail)
    /\ workers' = IF Spawned(fail) THEN workers \cup {NextPid} ELSE workers
    /\ IF fail = "none"
       THEN /\ exists' = TRUE
            /\ task' = AsI32(NextPid)
            /\ Complete(Outcome("new_external", None, "Ok", <<>>, <<>>, <<>>))
       ELSE /\ UNCHANGED <<exists, task>>
            /\ Complete(Outcome("new_external", None, "TransportErr",
                                <<fail>>, <<>>, <<>>))
    /\ last_msg' = None
    /\ UNCHANGED <<shut, toWorker, toParent, pc, handle, signals, sigRet,
                   pending, nsent, bufAt, disciplined, lastRecv>>

(***************************************************************************)
(* Session::initiate                                                       *)
(***************************************************************************)
initiate(service, class, user, authenticate, io) ==
    /\ CanCall
    /\ ops' = ops + 1
    /\ Discipline(MayInitiate)
    /\ LET msg == InitiateLogin(service, class, user, authenticate)
       IN /\ toWorker' = Sent(msg, io)
          /\ nsent' = IF SendOk(io) THEN nsent + 1 ELSE nsent
          /\ Complete(IF SendOk(io)
                      THEN Outcome("initiate", None, "Ok", <<>>, <<>>, <<msg>>)
                      ELSE Outcome("initiate", None, "TransportErr", SendErr,
                                   <<>>, <<>>))
    /\ UNCHANGED <<exists, task, shut, last_msg, toParent, pc, handle,
                   signals, sigRet, steps, workers, pending, bufAt, lastRecv>>

(***************************************************************************)
(* Session::get_state.  With a buffered reply it completes at once; with   *)
(* none it takes the recv branch, where last_msg stays None (take()) until *)
(* a datagram has been received.                                           *)
(***************************************************************************)
\* Mutant: the message taken out of the buffer is not put back.
GetStateFinish_NotBuffered(msg, got) ==
    LET m == GetStateMatch(msg)
    IN /\ last_msg' = None
       /\ pc' = "idle"
       /\ Complete(Outcome("get_state", None, m.kind, m.val, got, <<>>))

GetStateFinish(msg, got) ==
    LET m == GetStateMatch(msg)
    IN /\ last_msg' = Some(msg)
       /\ pc' = "idle"
       /\ Complete(Outcome("get_state", None, m.kind, m.val, got, <<>>))

get_state ==
    /\ CanCall
    /\ ops' = ops + 1
    /\ Discipline(MayGetState)
    /\ IF last_msg # None
       THEN /\ GetStateFinish(last_msg[1], <<>>)
            /\ UNCHANGED bufAt
       ELSE /\ pc' = "get_state_recv"
            /\ UNCHANGED <<last_msg, ret, bufAt>>
    /\ UNCHANGED <<exists, task, shut, toWorker, toParent, handle, signals,
                   sigRet, steps, workers, pending, nsent, lastRecv>>

get_state_recv(r) ==
    /\ pc = "get_state_recv"
    /\ r \in RecvResults
    /\ toParent' = r.rest
    /\ lastRecv' = IF r.ok THEN r.msg ELSE lastRecv
    /\ IF r.ok
       THEN /\ GetStateFinish(r.msg[1], <<Head(toParent)>>)
            /\ bufAt' = nsent
       ELSE /\ pc' = "idle"
            /\ Complete(Outcome("get_state", None, "TransportErr", r.err,
                                <<>>, <<>>))
            /\ UNCHANGED <<last_msg, bufAt>>
    /\ UNCHANGED <<exists, task, shut, toWorker, handle, signals, sigRet,
                   steps, workers, pending, nsent, disciplined, ops>>

(***************************************************************************)
(* Session::cancel and Session::post_answer.  The effect of each, computed *)
(* from the current state: the buffer and the channel it leaves, and the   *)
(* result it returns.                                                      *)
(***************************************************************************)
SendEffect(buf, msg, io) ==
    [last_msg |-> buf,
     toWorker |-> Sent(msg, io),
     kind |-> IF SendOk(io) THEN "Ok" ELSE "TransportErr",
     val |-> IF SendOk(io) THEN <<>> ELSE SendErr,
     sent |-> IF SendOk(io) THEN <<msg>> ELSE <<>>]

\* Mutant: cancel leaves the buffer as it is.
cancel_effect_KeepsBuffer(io) == SendEffect(last_msg, CancelRequest, io)

\* self.last_msg = None; ParentToSessionChild::Cancel.send(..).await?
cancel_effect(io) == SendEffect(None, CancelRequest, io)

\* self.last_msg = None; let msg = match answer {..}; msg.send(..).await?
post_answer_effect(answer, io) ==
    SendEffect(None, PostAnswerRequest(answer), io)

\* The call up to its suspension in send(..).await: the buffer is assigned,
\* the request msg is built and nothing has been written to the channel.
Suspend(at, msg, eff) ==
    /\ last_msg' = eff.last_msg
    /\ pc' = at
    /\ pending' = Some(msg)
    /\ UNCHANGED <<toWorker, nsent, ret>>

\* The send completes and the call returns.
Apply(op, arg, eff) ==
    /\ toWorker' = eff.toWorker
    /\ nsent' = nsent + Len(eff.sent)
    /\ pc' = "idle"
    /\ pending' = None
    /\ Complete(Outcome(op, arg, eff.kind, eff.val, <<>>, eff.sent))
    /\ UNCHANGED last_msg

\* self.last_msg = None, then the call is suspended in send.
cancel ==
    /\ CanCall
    /\ ops' = ops + 1
    /\ Discipline(MayAnswer)
    /\ Suspend("cancel_send", CancelRequest, cancel_effect(TRUE))
    /\ bufAt' = 0
    /\ UNCHANGED <<exists, task, shut, toParent, handle, signals, sigRet,
                   steps, workers, lastRecv>>

\* ParentToSessionChild::Cancel.send(&mut self.sock).await?; Ok(())
cancel_send(io) ==
    /\ pc = "cancel_send"
    /\ Apply("cancel", None, cancel_effect(io))
    /\ UNCHANGED <<exists, task, shut, toParent, handle, signals, sigRet,
                   steps, workers, bufAt, lastRecv, disciplined, ops>>

\* self.last_msg = None; let msg = match answer {..}, then the call is
\* suspended in send.
post_answer(answer) ==
    /\ CanCall
    /\ ops' = ops + 1
    /\ Discipline(MayAnswer)
    /\ Suspend("post_answer_send", PostAnswerRequest(answer),
               post_answer_effect(answer, TRUE))
    /\ bufAt' = 0
    /\ UNCHANGED <<exists, task, shut, toParent, handle, signals, sigRet,
                   steps, workers, lastRecv>>

\* msg.send(&mut self.sock).await?; Ok(())
post_answer_send(answer, io) ==
    /\ pc = "post_answer_send"
    /\ pending = Some(PostAnswerRequest(answer))
    /\ Apply("post_answer", answer, post_answer_effect(answer, io))
    /\ UNCHANGED <<exists, task, shut, toParent, handle, signals, sigRet,
                   steps, workers, bufAt, lastRecv, disciplined, ops>>

\* The arguments the caller passes.
AnswerArgs == {None} \cup {Some(a) : a \in Answers}

\* The operations that assign the buffer before their send, and where they
\* are suspended.
SendPcs == {"cancel_send", "post_answer_send"}

\* The caller drops the call that is suspended in send: the send does not
\* take place and the call returns nothing; the assignment to the buffer
\* stays.
drop_send ==
    /\ pc \in SendPcs
    /\ pc' = "idle"
    /\ pending' = None
    /\ Complete(Outcome(IF pc = "cancel_send" THEN "cancel" ELSE "post_answer",
                        IF pc = "cancel_send" THEN None
                        ELSE CHOOSE answer \in AnswerArgs :
                                 pending = Some(PostAnswerRequest(answer)),
                        "Dropped", <<>>, <<>>, <<>>))
    /\ UNCHANGED <<exists, task, shut, last_msg, toWorker, toParent, handle,
                   signals, sigRet, steps, workers, nsent, bufAt, lastRecv,
                   disciplined, ops>>

(***************************************************************************)
(* Session::send_args                                                      *)
(***************************************************************************)
send_args(cmd, env, vt, io) ==
    /\ CanCall
    /\ ops' = ops + 1
    /\ Discipline(MaySendArgs)
    /\ LET msg == Args(vt, env, cmd)
       IN /\ toWorker' = Sent(msg, io)
          /\ nsent' = IF SendOk(io) THEN nsent + 1 ELSE nsent
          /\ IF SendOk(io)
             THEN /\ pc' = "send_args_recv"
                  /\ pending' = Some(msg)
                  /\ UNCHANGED ret
             ELSE /\ pc' = "idle"
                  /\ UNCHANGED pending
                  /\ Complete(Outcome("send_args", None, "TransportErr",
                                      SendErr, <<>>, <<>>))
    /\ UNCHANGED <<exists, task, shut, last_msg, toParent, handle, signals,
                   sigRet, steps, workers, bufAt, lastRecv>>

send_args_recv(r) ==
    /\ pc = "send_args_recv"
    /\ r \in RecvResults
    /\ toParent' = r.rest
    /\ lastRecv' = IF r.ok THEN r.msg ELSE lastRecv
    /\ pending' = None
    /\ IF r.ok
       THEN LET m == SendArgsMatch(r.msg[1])
            IN /\ last_msg' = r.msg
               /\ bufAt' = nsent
               /\ pc' = "idle"
               /\ Complete(Outcome("send_args", None, m.kind, m.val,
                                   <<Head(toParent)>>, pending))
       ELSE /\ pc' = "idle"
            /\ Complete(Outcome("send_args", None, "TransportErr", r.err,
                                <<>>, pending))
            /\ UNCHANGED <<last_msg, bufAt>>
    /\ UNCHANGED <<exists, task, shut, toWorker, handle, signals, sigRet,
                   steps, workers, nsent, disciplined, ops>>

(***************************************************************************)
(* Session::start.  The socket is shut down as soon as a reply has been    *)
(* received, before the match on it; when the shutdown fails, start        *)
(* returns its error and the reply received is not looked at.              *)
(***************************************************************************)
start(io) ==
    /\ CanCall
    /\ ops' = ops + 1
    /\ Discipline(MayStart)
    /\ toWorker' = Sent(Start, io)
    /\ nsent' = IF SendOk(io) THEN nsent + 1 ELSE nsent
    /\ IF SendOk(io)
       THEN /\ pc' = "start_recv"
            /\ pending' = Some(Start)
            /\ UNCHANGED ret
       ELSE /\ pc' = "idle"
            /\ UNCHANGED pending
            /\ Complete(Outcome("start", None, "TransportErr", SendErr, <<>>,
                                <<>>))
    /\ UNCHANGED <<exists, task, shut, last_msg, toParent, handle, signals,
                   sigRet, steps, workers, bufAt, lastRecv>>

start_recv(r, ok) ==
    /\ pc = "start_recv"
    /\ r \in RecvResults
    /\ toParent' = r.rest
    /\ lastRecv' = IF r.ok THEN r.msg ELSE lastRecv
    /\ pending' = None
    /\ pc' = "idle"
    /\ IF r.ok
       THEN LET m == StartMatch(r.msg[1])
            IN /\ shut' = ShutAfterStart(r.msg[1], ok)
               /\ IF ok
                  THEN /\ handle' = IF m.kind = "Handle"
                                    THEN Some(SessionChild(task, r.msg[1].pid))
                                    ELSE handle
                       /\ Complete(Outcome("start", None, m.kind, m.val,
                                           <<Head(toParent)>>, pending))
                  ELSE /\ handle' = handle
                       /\ Complete(Outcome("start", None, "TransportErr",
                                           ShutdownErr, <<Head(toParent)>>,
                                           pending))
       ELSE /\ Complete(Outcome("start", None, "TransportErr", r.err, <<>>,
                                pending))
            /\ UNCHANGED <<shut, handle>>
    /\ UNCHANGED <<exists, task, last_msg, toWorker, signals, sigRet, steps,
                   workers, nsent, bufAt, disciplined, ops>>

(***************************************************************************)
(* SessionChild::term and SessionChild::kill.  ok, ok1, ok2: whether each  *)
(* signal::kill call succeeds.                                             *)
(***************************************************************************)
term(ok) ==
    /\ handle # None /\ pc = "idle"
    /\ signals' = TermSignals(handle[1], ok)
    /\ sigRet' = SignalReturn(TermSignals(handle[1], ok))
    /\ UNCHANGED <<exists, task, shut, last_msg, toWorker, toParent, pc,
                   handle, ret, steps, workers, pending, nsent, bufAt,
                   disciplined, ops, lastRecv>>

kill(ok1, ok2) ==
    /\ handle # None /\ pc = "idle"
    /\ signals' = KillSignals(handle[1], ok1, ok2)
    /\ sigRet' = SignalReturn(KillSignals(handle[1], ok1, ok2))
    /\ UNCHANGED <<exists, task, shut, last_msg, toWorker, toParent, pc,
                   handle, ret, steps, workers, pending, nsent, bufAt,
                   disciplined, ops, lastRecv>>

(***************************************************************************)
(* The session worker (an external collaborator): it reads the next        *)
(* request and answers it with one datagram.  Its send fails once the      *)
(* controller's socket has been shut down.                                 *)
(***************************************************************************)
WorkerReply(reply) ==
    /\ toWorker # <<>>
    /\ toWorker' = Tail(toWorker)
    /\ toParent' = IF shut
                   THEN toParent
                   ELSE Append(toParent,
                               [msg |-> reply, id |-> Head(toWorker).id])
    /\ UNCHANGED <<exists, task, shut, last_msg, pc, handle, ret, signals,
                   sigRet, steps, workers, pending, nsent, bufAt, disciplined,
                   ops, lastRecv>>

\* Every step of the program.  The number of operations the caller invokes
\* is capped at MaxOps.
Next ==
    \/ ops < MaxOps /\ \E fail \in NewFailures : NewExternal(fail)
    \/ ops < MaxOps /\ \E io \in BOOLEAN :
                           initiate("login", "user", "alice", TRUE, io)
    \/ ops < MaxOps /\ get_state
    \/ \E r \in RecvResults : get_state_recv(r)
    \/ ops < MaxOps /\ cancel
    \/ \E io \in BOOLEAN : cancel_send(io)
    \/ ops < MaxOps /\ \E answer \in AnswerArgs : post_answer(answer)
    \/ \E answer \in AnswerArgs, io \in BOOLEAN : post_answer_send(answer, io)
    \/ drop_send
    \/ ops < MaxOps /\ \E io \in BOOLEAN : send_args(<<"/bin/sh">>, <<>>, 1, io)
    \/ \E r \in RecvResults : send_args_recv(r)
    \/ ops < MaxOps /\ \E io \in BOOLEAN : start(io)
    \/ \E r \in RecvResults, ok \in BOOLEAN : start_recv(r, ok)
    \/ \E ok \in BOOLEAN : term(ok)
    \/ \E ok1 \in BOOLEAN, ok2 \in BOOLEAN : kill(ok1, ok2)
    \/ \E reply \in WorkerSends : WorkerReply(reply)

Spec == Init /\ [][Next]_vars

(***************************************************************************)
(* The login handshake: the caller creates the Session, calls initiate and *)
(* then repeats get_state, answering every Question with post_answer or    *)
(* cancel; after Ready it hands over the arguments and starts the session. *)
(* The worker follows the collaborator contract; the channel is reliable.  *)
(***************************************************************************)

\* The replies the contract allows to request req, the req.id-th on the
\* channel: during authentication a prompt or a terminal Success or Error,
\* with at most MaxPrompts prompts in all (every earlier request of the loop
\* was answered by one); one Success or Error after Args; one FinalChildPid
\* or Error after Start.
ContractReplies(req) ==
    CASE req.msg.type \in {"InitiateLogin", "PamResponse", "Cancel"} ->
             {Success} \cup {ErrorMsg(e) : e \in Errors}
             \cup (IF req.id <= MaxPrompts
                   THEN {PamMessage(st, t) : st \in Styles, t \in Texts}
                   ELSE {})
      [] req.msg.type = "Args" -> {Success} \cup {ErrorMsg(e) : e \in Errors}
      [] req.msg.type = "Start" ->
             {FinalChildPid(p) : p \in SubPids}
             \cup {ErrorMsg(e) : e \in Errors}

\* The steps of the caller.
LoginCaller ==
    \/ NewExternal("none")
    \/ MayInitiate /\ initiate("login", "user", "alice", TRUE, TRUE)
    \/ MayReceive /\ get_state
    \/ MayAnswer /\ cancel
    \/ cancel_send(TRUE)
    \/ MayAnswer /\ \E answer \in AnswerArgs : post_answer(answer)
    \/ \E answer \in AnswerArgs : post_answer_send(answer, TRUE)
    \/ MaySendArgs /\ send_args(<<"/bin/sh">>, <<>>, 1, TRUE)
    \/ MayStart /\ start(TRUE)

\* The channel delivers the next datagram to the suspended operation.
LoginDelivery ==
    \E r \in {x \in RecvResults : x.ok} :
        get_state_recv(r) \/ send_args_recv(r) \/ start_recv(r, TRUE)

\* The worker answers the next request as the contract allows.
LoginWorker ==
    /\ toWorker # <<>>
    /\ \E reply \in ContractReplies(Head(toWorker)) : WorkerReply(reply)

LoginNext == LoginCaller \/ LoginDelivery \/ LoginWorker

\* Caller, channel and worker each take their step when it stays enabled.
SpecLogin ==
    /\ Init /\ [][LoginNext]_vars
    /\ WF_vars(LoginCaller) /\ WF_vars(LoginDelivery) /\ WF_vars(LoginWorker)

(***************************************************************************)
(* Steps of the caller, read off two consecutive states.                   *)
(***************************************************************************)
\* The results of get_state that carry a reply of the worker.
ReplyKinds == {"Question", "Ready", "WorkerErr"}

\* This step is a call of get_state (which completes at once or suspends).
GetStateCalled ==
    /\ ops' = ops + 1
    /\ \/ pc' = "get_state_recv"
       \/ pc' = "idle" /\ ret'.op = "get_state"

\* This step is a call of cancel or post_answer, up to its suspension in
\* send.
CancelOrAnswerCalled == ops' = ops + 1 /\ pc' \in SendPcs

\* This step completes the send of a cancel or post_answer, which returns.
CancelOrAnswerReturned == pc \in SendPcs /\ pc' = "idle" /\ ret'.kind # "Dropped"

\* This step drops a cancel or post_answer that is suspended in send.
CancelOrAnswerDropped == pc \in SendPcs /\ pc' = "idle" /\ ret'.kind = "Dropped"

\* The requests sent whose reply the controller has not received: those the
\* worker has not read yet and those whose reply is queued for the
\* controller.  (A reply the worker sends to a shut-down socket is lost and
\* not counted.)
InFlight == Len(toWorker) + Len(toParent)

\* This step completes a get_state that was suspended in recv.
GetStateReceived == pc = "get_state_recv" /\ pc' # pc

(***************************************************************************)
(* C1: a get_state called right after a get_state that returned a          *)
(* Question, Ready or the worker's error - no request-sending operation in *)
(* between - returns the same result, completes without suspending in      *)
(* recv, and reads no datagram from the channel.                           *)
(***************************************************************************)
C1_GetStateIdempotent ==
    [][(GetStateCalled /\ ret.op = "get_state" /\ ret.kind \in ReplyKinds)
         => /\ pc' = "idle"
            /\ ret'.op = "get_state"
            /\ ret'.kind = ret.kind
            /\ ret'.val = ret.val
            /\ ret'.got = <<>>
            /\ toParent' = toParent]_vars

\* Two get_state calls in a row, the second answered from the buffer: in a
\* handshake that is in order, only a get_state can have filled the buffer
\* that a get_state finds.
C1_Witness ==
    /\ disciplined /\ ret.op = "get_state"
    /\ ret.kind = "Question" /\ ret.got = <<>>

(***************************************************************************)
(* C2 as stated: each call of cancel or post_answer clears the buffer,     *)
(* puts exactly one request on the channel (when it returns, it has) and   *)
(* receives nothing; the first get_state after it receives, and what it    *)
(* returns is the reply to that request.                                   *)
(***************************************************************************)
C2_Original ==
    [][/\ CancelOrAnswerCalled
          => /\ last_msg' = None
             /\ toParent' = toParent
       /\ CancelOrAnswerReturned
          => /\ last_msg' = None
             /\ Len(toWorker') = Len(toWorker) + 1
             /\ toParent' = toParent
       /\ (GetStateCalled /\ ret.op \in {"cancel", "post_answer"})
          => pc' = "get_state_recv"
       /\ (GetStateReceived /\ ret.op \in {"cancel", "post_answer"}
              /\ ret'.kind \in ReplyKinds)
          => /\ Len(ret'.got) = 1
             /\ ret'.got[1].id = nsent]_vars

(***************************************************************************)
(* C2 amended: each call of cancel or post_answer clears the buffer first  *)
(* and receives nothing; it puts exactly one request on the channel when   *)
(* its send succeeds, none when the send fails (the call then returns the  *)
(* transport error) or when the caller drops the call while it is          *)
(* suspended in the send, and the buffer stays cleared in each case; the   *)
(* first get_state after it suspends in a receive, and the state it        *)
(* returns is derived from the datagram it reads there, never from the     *)
(* reply buffered before the call; that datagram is the worker's reply to  *)
(* the request of the call when the call has sent it and no other request  *)
(* or reply is in flight at the receive.                                   *)
(***************************************************************************)
C2_CancelAnswerSendOnce ==
    [][/\ CancelOrAnswerCalled
          => /\ last_msg' = None
             /\ toParent' = toParent
             /\ toWorker' = toWorker
             /\ ret' = ret
       /\ CancelOrAnswerDropped
          => /\ last_msg = None /\ last_msg' = None
             /\ toParent' = toParent
             /\ toWorker' = toWorker
             /\ ret'.sent = <<>>
       /\ CancelOrAnswerReturned
          => /\ last_msg = None /\ last_msg' = None
             /\ toParent' = toParent
             /\ \/ /\ ret'.kind = "Ok"
                   /\ Len(toWorker') = Len(toWorker) + 1
                   /\ toWorker'[Len(toWorker')].msg.type
                          \in {"Cancel", "PamResponse"}
                   /\ ret'.sent = <<toWorker'[Len(toWorker')].msg>>
                   /\ SubSeq(toWorker', 1, Len(toWorker)) = toWorker
                \/ /\ ret'.kind = "TransportErr"
                   /\ toWorker' = toWorker
       /\ (GetStateCalled /\ ret.op \in {"cancel", "post_answer"})
          => pc' = "get_state_recv" /\ last_msg' = None /\ ret' = ret
       /\ (GetStateReceived /\ ret.op \in {"cancel", "post_answer"}
              /\ ret'.kind \in ReplyKinds)
          => /\ Len(ret'.got) = 1
             /\ Len(toParent') = Len(toParent) - 1
             /\ [kind |-> ret'.kind, val |-> ret'.val]
                    = GetStateMatch(ret'.got[1].msg)
             /\ (ret.kind = "Ok" /\ InFlight = 1)
                => /\ ret'.got[1].id = nsent
                   /\ ret.sent # <<>>]_vars

\* A get_state that followed a cancel or post_answer (in a handshake that is
\* in order, the requests after the first and before Ready are theirs) and
\* returned the state of the reply it received.
C2_Witness ==
    /\ disciplined /\ ret.op = "get_state"
    /\ ret.kind = "Ready" /\ Len(ret.got) = 1 /\ ret.got[1].id >= 2
    /\ ret.got[1].id = nsent

(***************************************************************************)
(* C3 as stated: right after initiate, cancel, post_answer, send_args or   *)
(* start has sent its request, the buffer holds no reply that was received *)
(* before that request was sent.                                           *)
(***************************************************************************)
SendingOps == {"initiate", "cancel", "post_answer", "send_args", "start"}

\* The last thing the Session did on the channel was to send a request of
\* one of the five operations (which is now suspended or has returned).
RequestJustSent ==
    \/ pc \in {"send_args_recv", "start_recv"}
    \/ pc = "idle" /\ ret.op \in SendingOps /\ ret.sent # <<>>

C3_BufferClearedOnRequest ==
    (RequestJustSent /\ last_msg # None) => bufAt >= nsent

(***************************************************************************)
(* C4: post_answer(None) is cancel: from every state in which the caller   *)
(* can call them, whether the send succeeds or fails, the two have the     *)
(* same effect - the same request (Cancel) on the channel, the same        *)
(* Session (buffer empty; task and socket untouched) and the same result.  *)
(***************************************************************************)
C4_PostAnswerNoneIsCancel ==
    /\ (exists /\ pc \in {"idle"} \cup SendPcs)
       => \A io \in BOOLEAN :
              /\ post_answer_effect(None, io) = cancel_effect(io)
              /\ PostAnswerRequest(None) = CancelRequest
              /\ cancel_effect(io).last_msg = None
              /\ cancel_effect(io).sent = IF io /\ ~shut THEN <<Cancel>> ELSE <<>>
    /\ (pc = "cancel_send" \/ (pc = "post_answer_send" /\ pending = Some(Cancel)))
       => last_msg = None /\ pending = Some(Cancel)
    /\ (ret.op = "cancel" \/ (ret.op = "post_answer" /\ ret.arg = None))
       => /\ ret.sent = IF ret.kind = "Ok" THEN <<Cancel>> ELSE <<>>
          /\ ret.kind \in {"Ok", "TransportErr", "Dropped"}
          /\ ret.got = <<>>

\* post_answer(None) has sent its request, the same as the request a cancel
\* or post_answer(None) before it sent.
C4_Witness ==
    /\ ret.op = "post_answer" /\ ret.arg = None /\ ret.sent = <<Cancel>>
    /\ Len(toWorker) = 2 /\ toWorker[1].msg = toWorker[2].msg

(***************************************************************************)
(* More steps of the caller.                                               *)
(***************************************************************************)
RecvPcs == {"get_state_recv", "send_args_recv", "start_recv"}

\* This step completes the recv of a suspended operation with a datagram
\* that deserializes.
Received ==
    /\ pc \in RecvPcs /\ pc' # pc
    /\ toParent # <<>> /\ toParent' = Tail(toParent)
    /\ Decode(Head(toParent).msg) # None

\* The message the operation of this step bases its result on: the datagram
\* it receives, or for a get_state that does not suspend, the buffered one.
Replied(m) ==
    \/ Received /\ m = Head(toParent).msg
    \/ GetStateCalled /\ last_msg # None /\ m = last_msg[1]

\* The operation that completes in this step.
Completing ==
    CASE pc = "get_state_recv" -> "get_state"
      [] pc = "send_args_recv" -> "send_args"
      [] pc = "start_recv" -> "start"
      [] OTHER -> ret'.op

(***************************************************************************)
(* C5 as stated: when the reply get_state, send_args or start reads is     *)
(* Error(e) (a reply that deserializes, of at most RecvBufLen bytes), the  *)
(* operation returns exactly e, returns no state and no Session Handle,    *)
(* and puts no further request on the channel.                             *)
(***************************************************************************)
C5_WorkerErrorVerbatim ==
    [][\A e \in Errors :
           Replied(ErrorMsg(e))
           => /\ pc' = "idle"
              /\ ret'.op = Completing
              /\ ret'.kind = "WorkerErr"
              /\ ret'.val = <<e>>
              /\ handle' = handle
              /\ toWorker' = toWorker
              /\ nsent' = nsent]_vars

(***************************************************************************)
(* C6 as stated: a message that is not valid for the awaited step -        *)
(* FinalChildPid in get_state, PamMessage or FinalChildPid in send_args,   *)
(* PamMessage or Success in start - is fatal: the operation returns no     *)
(* state, no success and no Session Handle and ends in a panic, and after  *)
(* the panic the handshake does not continue (no operation is invoked on   *)
(* the Session and no request is sent).                                    *)
(***************************************************************************)
Unexpected(op) ==
    CASE op = "get_state" -> {"FinalChildPid"}
      [] op = "send_args" -> {"PamMessage", "FinalChildPid"}
      [] op = "start" -> {"PamMessage", "Success"}
      [] OTHER -> {}

C6_UnexpectedMessageIsFatal ==
    [][/\ \A m \in Replies :
              (Replied(m) /\ m.type \in Unexpected(Completing))
              => /\ ret'.op = Completing
                 /\ ret'.kind = "Panic"
                 /\ handle' = handle
                 /\ toWorker' = toWorker
       /\ ret.kind = "Panic"
          => /\ ops' = ops
             /\ nsent' = nsent
             /\ UNCHANGED <<ret, handle, last_msg, shut>>]_vars

(***************************************************************************)
(* C7: whenever the caller holds a Session Handle returned by start, the   *)
(* Session's socket has been shut down (in both directions).               *)
(***************************************************************************)
C7_HandleImpliesShutdown == handle # None => shut

\* start has just returned a Session Handle.
C7_Witness ==
    handle # None /\ ret.op = "start" /\ ret.kind = "Handle" /\ shut

(***************************************************************************)
(* C8 as stated: once start has succeeded, every later operation on the    *)
(* Session fails with a transport error, delivers no message to the worker *)
(* and returns no session state.  (Stated for the operations that return   *)
(* and find no datagram left over on the socket, which is the narrower     *)
(* statement.)                                                             *)
(***************************************************************************)
C8_ConsumedAfterStart ==
    (/\ handle # None /\ pc = "idle"
     /\ ~(ret.op = "start" /\ ret.kind = "Handle")
     /\ ret.kind # "Dropped"
     /\ ret.got = <<>>)
    => /\ ret.op \in SessionOps
       /\ ret.kind = "TransportErr"
       /\ ret.sent = <<>>

(***************************************************************************)
(* C9: the Session Handle is created by start from the FinalChildPid reply *)
(* it receives, with task = the pid of the Session's worker and sub_task = *)
(* the pid in that reply; owns_pid(p) holds exactly for these two pids;    *)
(* and a handle, once created, never changes.                              *)
(***************************************************************************)
TestPids == {10, 11, 13} \cup SubPids

C9_HandleRecordsPids ==
    [][handle' # handle
       => /\ handle = None
          /\ pc = "start_recv" /\ Received
          /\ Head(toParent).msg.type = "FinalChildPid"
          /\ task \in workers
          /\ handle'[1].task = task
          /\ handle'[1].sub_task = Head(toParent).msg.pid
          /\ \A p \in TestPids :
                 owns_pid(handle'[1], p)
                     <=> (p = task \/ p = Head(toParent).msg.pid)]_vars

\* A handle whose two pids differ: it owns both and no other.
C9_Witness ==
    /\ handle # None
    /\ handle[1].task = 10 /\ handle[1].sub_task = 12
    /\ owns_pid(handle[1], 10) /\ owns_pid(handle[1], 12)
    /\ ~owns_pid(handle[1], 11)

(***************************************************************************)
(* C10: term makes one signal call, SIGTERM to the sub-task pid (none      *)
(* aimed at the task pid, which is signalled only if the worker reported   *)
(* that same pid as its sub-task); kill makes two, SIGKILL to the sub-task *)
(* pid and SIGKILL to the task pid; nothing else signals, no other pid is  *)
(* signalled, and the handle is unchanged.                                 *)
(***************************************************************************)
C10_TermKillTargets ==
    [][signals' # signals
       => /\ handle # None /\ handle' = handle
          /\ LET h == handle[1]
                 new == signals'
             IN /\ \A i \in 1..Len(new) : new[i].pid \in {h.task, h.sub_task}
                /\ \/ /\ Len(new) = 1
                      /\ new[1].pid = h.sub_task /\ new[1].sig = "SIGTERM"
                      /\ new[1].by = "term"
                      /\ h.task # h.sub_task => new[1].pid # h.task
                   \/ /\ Len(new) = 2
                      /\ new[1].pid = h.sub_task /\ new[1].sig = "SIGKILL"
                      /\ new[1].by = "kill"
                      /\ new[2].pid = h.task /\ new[2].sig = "SIGKILL"
                      /\ new[2].by = "kill"]_vars

\* kill on a handle whose two pids differ.
C10_Witness ==
    /\ handle # None /\ handle[1].task # handle[1].sub_task
    /\ Len(signals) = 2
    /\ signals[1].by = "kill" /\ signals[1].pid = handle[1].sub_task
    /\ signals[2].by = "kill" /\ signals[2].pid = handle[1].task

(***************************************************************************)
(* term and kill are best effort.                                          *)
(***************************************************************************)

\* C11: term and kill complete without reporting an error whatever the
\* signal::kill calls returned, and kill makes both its calls,
\* kill(sub_task, SIGKILL) and then kill(task, SIGKILL), also when the first
\* one failed.
C11_TermKillBestEffort ==
    signals # <<>>
    => /\ sigRet = "Unit"
       /\ signals[1].by = "kill"
          => /\ Len(signals) = 2
             /\ signals[1].pid = handle[1].sub_task
             /\ signals[2].pid = handle[1].task
             /\ signals[2].sig = "SIGKILL" /\ signals[2].by = "kill"

\* kill's first delivery failed, the task was signalled all the same, and
\* kill returned ().
C11_KillWitness ==
    /\ sigRet = "Unit" /\ Len(signals) = 2
    /\ signals[1].by = "kill" /\ ~signals[1].ok
    /\ signals[1].pid = handle[1].sub_task
    /\ signals[2].by = "kill" /\ signals[2].pid = handle[1].task

(***************************************************************************)
(* Requests in flight.                                                     *)
(***************************************************************************)

\* C12, as stated: in every reachable state at most one request is in
\* flight.
C12_Original == InFlight <= 1

\* C12, amended: when the caller follows the handshake and stops at the
\* first error, at most one request is in flight in every reachable state,
\* and no request is left unread when the socket is shut down.
C12_OneInFlightWhenDisciplined ==
    disciplined => /\ InFlight <= 1
                   /\ shut => toWorker = <<>>

\* The disciplined caller has sent its third request (InitiateLogin, an
\* answer, Args or InitiateLogin, Args, Start) and it is the one in flight.
C12_Witness == disciplined /\ nsent >= 3 /\ InFlight = 1 /\ pc # "idle"

(***************************************************************************)
(* The order of the requests.                                              *)
(***************************************************************************)

\* A step puts a request on the channel.
SendsRequest == nsent' = nsent + 1

\* The request such a step puts on the channel.
RequestSent == toWorker'[Len(toWorker')].msg

\* C13: the requests follow the handshake order: the first request on the
\* channel is InitiateLogin; PamResponse or Cancel is sent only when the
\* state last returned by get_state is Question; Args only when it is
\* Ready; Start only when send_args has just returned Ok.
C13_HandshakeOrder ==
    [][SendsRequest
       => /\ nsent = 0 => RequestSent.type = "InitiateLogin"
          /\ RequestSent.type \in {"PamResponse", "Cancel"} => MayAnswer
          /\ RequestSent.type = "Args" => MaySendArgs
          /\ RequestSent.type = "Start" => MayStart]_vars

\* C14: once get_state, send_args or start has returned the worker's Error,
\* the Session puts no further request on the channel - here for a handshake
\* that was in order up to the Error, and for the step that follows it.
C14_ErrorEndsHandshake ==
    [][(/\ disciplined
        /\ ret.op \in {"get_state", "send_args", "start"}
        /\ ret.kind = "WorkerErr")
       => ~SendsRequest]_vars

(***************************************************************************)
(* The state get_state returns.                                            *)
(***************************************************************************)

\* C15: the state get_state returns is the projection of the last message
\* received from the worker: whenever get_state has returned something
\* other than a transport error, the result is what the match of get_state
\* makes of the message received last - Question(style, text) exactly for
\* PamMessage with that style and text, Ready exactly for Success.
C15_StateIsProjection ==
    (ret.op = "get_state" /\ ret.kind # "TransportErr")
    => /\ lastRecv # None
       /\ GetStateMatch(lastRecv[1]) = [kind |-> ret.kind, val |-> ret.val]

(***************************************************************************)
(* Session creation.                                                       *)
(***************************************************************************)

\* The last call of new_external returned an error.
NewExternalFailed == ret.op = "new_external" /\ ret.kind = "TransportErr"

\* C16: when creating the endpoint pair, adjusting the descriptor flags or
\* spawning the worker fails (or any other step of new_external does),
\* new_external returns an error and no Session, and it has attempted every
\* step at most once: the steps it ran are those up to the failing one, in
\* program order, none of them twice.
C16_CreationFailsAsAWhole ==
    NewExternalFailed
    => /\ ~exists /\ pc = "idle"
       /\ steps # <<>> /\ ret.val = <<steps[Len(steps)]>>
       /\ steps = SubSeq(NewSteps, 1, Len(steps))
       /\ \A i, j \in 1..Len(steps) : steps[i] = steps[j] => i = j

\* The spawn failed after pair, both fcntl calls and current_exe succeeded.
C16_Witness ==
    /\ NewExternalFailed /\ ret.val = <<"spawn">>
    /\ steps = <<"pair", "getfd", "setfd", "current_exe", "spawn">>
    /\ ~exists

(***************************************************************************)
(* Termination of the question loop.                                       *)
(***************************************************************************)

\* C17: with a contract worker, a reliable channel and the caller of the
\* question loop, under fair scheduling some get_state eventually returns
\* Ready or the worker's error, and every get_state that suspends in recv
\* returns.
C17_QuestionLoopTerminates ==
    /\ <>(ret.op = "get_state" /\ ret.kind \in {"Ready", "WorkerErr"})
    /\ (pc = "get_state_recv") ~> (pc = "idle")

\* The worker has used all its prompts, the caller has answered each, and
\* the last get_state returned Ready.
C17_Witness ==
    /\ ret.op = "get_state" /\ ret.kind = "Ready"
    /\ Len(ret.got) = 1 /\ ret.got[1].id = MaxPrompts + 1

(***************************************************************************)
(* The reply send_args and start act on.                                   *)
(***************************************************************************)

\* C18: the reply on which send_args or start bases its result is the
\* worker's reply to that very request: when either has returned after
\* receiving a datagram, the datagram answers the request sent last (the
\* Args or Start of that call), the worker answering every request once and
\* in order.
C18_ReplyToOwnRequest ==
    (/\ ret.op \in {"send_args", "start"} /\ pc = "idle"
     /\ ret.got # <<>>)
    => ret.got[1].id = nsent

(***************************************************************************)
(* The channel after start.                                                *)
(***************************************************************************)

\* This step completes a call of start: its recv returns, or its send fails.
StartCompletes ==
    \/ pc = "start_recv" /\ pc' # pc
    \/ pc = "idle" /\ pc' = "idle" /\ ops' = ops + 1 /\ ret'.op = "start"

\* C19 as stated: start shuts the channel down whenever it has received a
\* reply: answered with Error(e) it returns e with the socket shut down, the
\* channel is open after start only if start's send or receive failed, and
\* once the socket is shut down it stays so and no request is sent.
C19_Original ==
    [][/\ (StartCompletes /\ ret'.got # <<>>) => shut'
       /\ (StartCompletes /\ Received /\ Head(toParent).msg.type = "Error")
          => /\ shut'
             /\ ret'.kind = "WorkerErr"
             /\ ret'.val = <<Head(toParent).msg.err>>
       /\ (StartCompletes /\ ~shut')
          => ret'.kind = "TransportErr" /\ ret'.got = <<>>
       /\ shut => shut' /\ ~SendsRequest]_vars

\* C19 amended: start shuts the channel down whenever it has received a
\* reply and the shutdown call succeeds, not only on success: when it
\* returns the worker's Error(e), the socket is shut down; the channel is
\* open after start only if start's send, receive or shutdown failed (when
\* the shutdown fails, start returns that error in place of the reply, and
\* no handle); and once the socket is shut down it stays so and no request
\* is sent.
C19_StartShutsOnAnyReply ==
    [][/\ (StartCompletes /\ ret'.got # <<>> /\ ret'.val # ShutdownErr)
          => shut'
       /\ (StartCompletes /\ ret'.kind = "WorkerErr")
          => /\ shut'
             /\ ret'.got # <<>> /\ ret'.got[1].msg.type = "Error"
             /\ ret'.val = <<ret'.got[1].msg.err>>
       /\ (StartCompletes /\ ~shut')
          => /\ ret'.kind = "TransportErr"
             /\ ret'.val \in {SendErr, RecvErr, DecodeErr, ShutdownErr}
             /\ ret'.got # <<>> <=> ret'.val = ShutdownErr
             /\ handle' = handle
       /\ shut => shut' /\ ~SendsRequest]_vars

\* start was answered with the worker's Error and returned it; the socket
\* is shut down and the request that was tried after it was not sent.
C19_Witness ==
    /\ lastRecv # None /\ lastRecv[1].type = "Error" /\ shut
    /\ handle = None
    /\ ret.op \in SendingOps /\ ret.kind = "TransportErr" /\ ret.sent = <<>>

\* C20: session creation is all-or-nothing with respect to the worker
\* process: after new_external has returned an error no worker it spawned
\* exists, and every worker running belongs to the returned Session, which
\* records its pid.
C20_CreationAllOrNothing ==
    /\ NewExternalFailed => workers = {}
    /\ \A w \in workers : exists /\ task = AsI32(w)

====
